---- MODULE Spec2Model ----
(***************************************************************************)
(* KinematicWaveRengers (landlab/components/overland_flow/                 *)
(* kinematic_wave_rengers.py): the explicit kinematic-wave overland-flow   *)
(* integrator, as a state machine.                                         *)
(*                                                                         *)
(* Numbers.  The component computes in floating point.  The model computes *)
(* in fixed point: depths, times, velocities and discharges are integers   *)
(* in fixed units, and a quotient is rounded down where the code divides.  *)
(* Unit is the fixed-point value of 1.0 for the dimensionless Courant      *)
(* number, so that (time * velocity) \div (spacing * Unit) is a fraction   *)
(* of a cell.                                                              *)
(*                                                                         *)
(* Manning closure.  With the default mannings_epsilon = 0.33333333 the    *)
(* code's  hnew ** 0.66666666 / (n * (hnew / hc) ** -epsilon)  is          *)
(* hnew ** 0.99999999 / (n * hc ** epsilon): linear in the depth.  The     *)
(* velocity unit is chosen so that this factor is the depth itself.        *)
(***************************************************************************)
EXTENDS Integers, Sequences, FiniteSets, TLC

(***************************************************************************)
(* Bounds of the model.                                                    *)
(***************************************************************************)
\* run_one_step is called at most MaxCalls times on one component
MaxCalls == 2
\* at most MaxSubSteps iterations of the sub-step loop are followed per call
MaxSubSteps == 4

(***************************************************************************)
(* The grid (external collaborator): a raster of nodes numbered row by row *)
(* from the bottom left, with four neighbours per node.                    *)
(***************************************************************************)
number_of_node_rows == 3
number_of_node_columns == 3
number_of_nodes == number_of_node_rows * number_of_node_columns
Nodes == 0..(number_of_nodes - 1)

BAD_INDEX == -1

BC_NODE_IS_CORE == "core"
BC_NODE_IS_FIXED_VALUE == "fixed_value"
BC_NODE_IS_FIXED_GRADIENT == "fixed_gradient"
BC_NODE_IS_LOOPED == "looped"
BC_NODE_IS_CLOSED == "closed"

Col(n) == n % number_of_node_columns
Row(n) == n \div number_of_node_columns

\* adjacent_nodes_at_node[n] = <<east, north, west, south>>, BAD_INDEX where
\* the grid ends.  Python's columns 0..3 are the positions 1..4 here.
adjacent_nodes_at_node ==
    [n \in Nodes |->
        << IF Col(n) + 1 < number_of_node_columns THEN n + 1 ELSE BAD_INDEX,
           IF Row(n) + 1 < number_of_node_rows THEN n + number_of_node_columns
                                               ELSE BAD_INDEX,
           IF Col(n) > 0 THEN n - 1 ELSE BAD_INDEX,
           IF Row(n) > 0 THEN n - number_of_node_columns ELSE BAD_INDEX >>]

(***************************************************************************)
(* The grid's gradients.  calc_grad_at_link gives, for the link between    *)
(* two adjacent nodes, the rise of the field from its western or southern  *)
(* end to its eastern or northern end over the spacing.  A link is active  *)
(* when it joins a core node to a core, fixed-value or looped node.        *)
(* map_mean_of_horizontal_active_links_to_node (and _vertical_) give each  *)
(* node the mean over its active links along that axis, zero with none.    *)
(***************************************************************************)
LinkIsActive(status, a, b) ==
    /\ {status[a], status[b]} \subseteq
           {BC_NODE_IS_CORE, BC_NODE_IS_FIXED_VALUE, BC_NODE_IS_LOOPED}
    /\ BC_NODE_IS_CORE \in {status[a], status[b]}

GradAtLink(z, tail, head, spacing) == (z[head] - z[tail]) \div spacing

\* ahead, behind: the positions of the two neighbours along the axis in
\* adjacent_nodes_at_node (1 and 3 along the rows, 2 and 4 along the columns)
MapMeanOfActiveLinksToNode(z, status, n, ahead, behind, spacing) ==
    LET a == adjacent_nodes_at_node[n][ahead]
        b == adjacent_nodes_at_node[n][behind]
        hasA == a # BAD_INDEX /\ LinkIsActive(status, n, a)
        hasB == b # BAD_INDEX /\ LinkIsActive(status, b, n)
        ga == IF hasA THEN GradAtLink(z, n, a, spacing) ELSE 0
        gb == IF hasB THEN GradAtLink(z, b, n, spacing) ELSE 0
    IN  IF hasA /\ hasB THEN (ga + gb) \div 2 ELSE ga + gb

(***************************************************************************)
(* Arithmetic helpers.                                                     *)
(***************************************************************************)
Unit == 100000

Abs(x) == IF x < 0 THEN -x ELSE x
Min(a, b) == IF a <= b THEN a ELSE b
Max(a, b) == IF a >= b THEN a ELSE b

\* ndarray.clip(min=lo) and ndarray.clip(max=hi) on one element
ClipMin(x, lo) == IF x < lo THEN lo ELSE x
ClipMax(x, hi) == IF x > hi THEN hi ELSE x

\* np.fabs(x) ** 0.5 on the gradient values the model draws
RECURSIVE Root(_, _)
Root(x, r) == IF (r + 1) * (r + 1) > x THEN r ELSE Root(x, r + 1)
SqrtAbs(x) == Root(Abs(x), 0)

RECURSIVE SumSeq(_)
SumSeq(s) == IF s = << >> THEN 0 ELSE Head(s) + SumSeq(Tail(s))

RECURSIVE MaxAbs(_, _)
\* np.fabs(f).max() over the nodes 0..k of f
MaxAbs(f, k) == IF k = 0 THEN Abs(f[0]) ELSE Max(Abs(f[k]), MaxAbs(f, k - 1))

RECURSIVE SortedSeq(_)
\* the members of a set of integers in increasing order (np.where(...)[0])
SortedSeq(S) ==
    IF S = {} THEN << >>
    ELSE LET m == CHOOSE x \in S : \A y \in S : x <= y
         IN  <<m>> \o SortedSeq(S \ {m})

\* np.where(mask)[0] for a boolean sequence: the positions holding TRUE
Where(mask) == SortedSeq({i \in DOMAIN mask : mask[i]})

\* arr[active] for a per-node array and a sequence of node ids
Take(arr, idx) == [i \in 1..Len(idx) |-> arr[idx[i]]]

\* position of node n in the sequence of active nodes
Pos(act, n) == CHOOSE i \in 1..Len(act) : act[i] = n
IsIn(act, n) == \E i \in 1..Len(act) : act[i] = n

(***************************************************************************)
(* Parameters of the component (constructor defaults, in model units).     *)
(***************************************************************************)
\* min_surface_water_depth: the depth floor
min_surface_water_depth == 100
\* max_courant = 0.2
max_courant == Unit \div 5

\* twothirdshnewbyn = hnew ** 0.66666666 / n  with
\* n = self._n * (hnew / self._hc) ** self._negepsilon
twothirdshnewbyn(depth) == depth

(***************************************************************************)
(* Inputs the model draws.                                                 *)
(***************************************************************************)
Centre == number_of_node_columns + 1

PerimeterLayout(p, c) == [n \in Nodes |-> IF n = Centre THEN c ELSE p]
ColumnLayout(t) == [n \in Nodes |-> t[Col(n) + 1]]
RowLayout(t) == [n \in Nodes |-> t[Row(n) + 1]]

\* status_at_node as the caller left it before constructing the component
StatusLayouts ==
    { PerimeterLayout(BC_NODE_IS_FIXED_VALUE, BC_NODE_IS_CORE),
      PerimeterLayout(BC_NODE_IS_LOOPED, BC_NODE_IS_CORE),
      PerimeterLayout(BC_NODE_IS_CLOSED, BC_NODE_IS_CORE),
      PerimeterLayout(BC_NODE_IS_CORE, BC_NODE_IS_CORE),
      PerimeterLayout(BC_NODE_IS_FIXED_GRADIENT, BC_NODE_IS_CORE),
      ColumnLayout(<<BC_NODE_IS_FIXED_VALUE, BC_NODE_IS_FIXED_VALUE,
                     BC_NODE_IS_CORE>>),
      ColumnLayout(<<BC_NODE_IS_LOOPED, BC_NODE_IS_LOOPED,
                     BC_NODE_IS_CORE>>),
      RowLayout(<<BC_NODE_IS_CORE, BC_NODE_IS_LOOPED, BC_NODE_IS_LOOPED>>),
      ColumnLayout(<<BC_NODE_IS_FIXED_GRADIENT, BC_NODE_IS_CORE,
                     BC_NODE_IS_CORE>>),
      ColumnLayout(<<BC_NODE_IS_FIXED_GRADIENT, BC_NODE_IS_LOOPED,
                     BC_NODE_IS_CORE>>),
      ColumnLayout(<<BC_NODE_IS_CORE, BC_NODE_IS_FIXED_GRADIENT,
                     BC_NODE_IS_FIXED_GRADIENT>>) }

\* the grids handed to the constructor: raster grids in every layout, and a
\* grid of another class in one layout
GridLayouts(is_raster) ==
    IF is_raster THEN StatusLayouts
    ELSE { PerimeterLayout(BC_NODE_IS_LOOPED, BC_NODE_IS_CORE) }

\* whether the grid has the methods and attributes of a raster that
\* __init__ uses (map_mean_of_horizontal_active_links_to_node, dx, dy, ...):
\* a raster has them, a grid of another class may or may not
RasterInterfaceChoices(is_raster) ==
    IF is_raster THEN {TRUE} ELSE {TRUE, FALSE}

\* topographic__elevation: heights <<by column, by row>>, added up, in
\* numbers of cell spacings (flat, a plane falling or rising, a valley)
Flat == <<0, 0, 0>>
HeightChoices ==
    { <<Flat, Flat>>,
      << <<0, -1, -2>>, Flat >>,
      << Flat, <<0, 4, 8>> >>,
      << <<1, 0, 4>>, <<0, -1, -2>> >>,
      << <<0, 4, 8>>, <<1, 0, 4>> >> }
Elevation(hts, sx, sy) ==
    [n \in Nodes |-> hts[1][Col(n) + 1] * sx + hts[2][Row(n) + 1] * sy]

\* surface_water__depth on entry: everywhere at the floor, or varied above it
DepthChoices ==
    { [n \in Nodes |-> min_surface_water_depth],
      [n \in Nodes |->
          min_surface_water_depth * (1 + ((n + Row(n)) % 3))] }

\* <<grid.dx, grid.dy>>
SpacingChoices == { <<1, 1>>, <<1, 2>> }

\* dt_max handed to the constructor
DtMaxChoices == {-30, 0, 20, 1000}

\* run_one_step(dt, rainfall_intensity, update_topography, track_min_depth)
DtChoices == {0, 50}
RainChoices ==
    { [n \in Nodes |-> 0], [n \in Nodes |-> 1], [n \in Nodes |-> 2 * (n % 2)] }

\* fixed_gradient_boundary_nodes: np.where(status == FIXED_GRADIENT)[0]
FixedGradientNodes(status) ==
    SortedSeq({n \in Nodes : status[n] = BC_NODE_IS_FIXED_GRADIENT})

\* fixed_gradient_boundary_node_anchor_node: for each fixed-gradient node,
\* in the same order, the node at the other end of one of its links, along
\* the rows ("hoz") or along the columns ("vert")
AnchorOf(n, axis) ==
    LET nb == adjacent_nodes_at_node[n]
    IN  IF axis = "hoz"
        THEN (IF nb[1] # BAD_INDEX THEN nb[1] ELSE nb[3])
        ELSE (IF nb[2] # BAD_INDEX THEN nb[2] ELSE nb[4])
AnchorNodes(status, axis) ==
    LET fg == FixedGradientNodes(status)
    IN  [k \in 1..Len(fg) |-> AnchorOf(fg[k], axis)]
AnchorChoices(status) ==
    IF FixedGradientNodes(status) = << >> THEN { << >> }
    ELSE { AnchorNodes(status, "hoz"), AnchorNodes(status, "vert") }

(***************************************************************************)
(* State.                                                                  *)
(***************************************************************************)
VARIABLES
    \* the grid and its fields
    grid_is_raster,              \* isinstance(grid, RasterModelGrid)
    status_at_node, topographic__elevation, dx, dy,
    fixed_gradient_boundary_node_anchor_node,
    _h,                          \* grid.at_node["surface_water__depth"]
    \* the component
    _active, dt_max, hozslopept5, vertslopept5, velx, vely, qx, qy,
    poshozgrads, posvertgrads, equaldims, courant_prefactor, _neighbors,
    _water_balance, actives_BCs, actives_BCs_water_depth,
    fixed_grad_nodes_active, fixed_grad_anchors_active,
    hnew, _internal_dt,
    assigned,                    \* which of "hnew", "_internal_dt" exist
    \* the run_one_step call in progress
    pc, dt, rainfall_intensity, update_topography, track_min_depth,
    elapsed_time_in_dt, internal_dt,
    \* what the last operation returned or raised
    ret,
    \* bookkeeping of the model
    calls, substeps, tracked_substeps, h_entry,
    upd_entry,                   \* update_topography of the latest call
    topo_invocations,            \* update_topographic_params entered by it
    consecutive_updates,         \* direct calls of it in a row, up to two
    topo_after_first             \* the caches after the first of them

gridVars == <<grid_is_raster, status_at_node, topographic__elevation, dx, dy,
              fixed_gradient_boundary_node_anchor_node>>
topoVars == <<_active, hozslopept5, vertslopept5, poshozgrads, posvertgrads,
              _neighbors, actives_BCs, actives_BCs_water_depth,
              fixed_grad_nodes_active, fixed_grad_anchors_active>>
setupVars == <<dt_max, equaldims, courant_prefactor>>
fluxVars == <<velx, vely, qx, qy>>
callVars == <<dt, rainfall_intensity, update_topography, track_min_depth,
              elapsed_time_in_dt, internal_dt>>
vars == <<gridVars, _h, topoVars, setupVars, fluxVars, _water_balance, hnew,
          _internal_dt, assigned, pc, callVars, ret, calls, substeps,
          tracked_substeps, h_entry, upd_entry, topo_invocations,
          consecutive_updates, topo_after_first>>

\* the value of a variable before __init__ has assigned it
Unset == "unset"
NoResult == [op |-> "none", raised |-> "none", value |-> 0]

Init ==
    /\ grid_is_raster \in BOOLEAN
    /\ status_at_node \in GridLayouts(grid_is_raster)
    /\ \E s \in SpacingChoices : dx = s[1] /\ dy = s[2]
    /\ \E hts \in HeightChoices :
          topographic__elevation = Elevation(hts, dx, dy)
    /\ fixed_gradient_boundary_node_anchor_node
          \in AnchorChoices(status_at_node)
    /\ _h \in DepthChoices
    /\ _active = Unset /\ dt_max = Unset
    /\ hozslopept5 = Unset /\ vertslopept5 = Unset
    /\ velx = Unset /\ vely = Unset /\ qx = Unset /\ qy = Unset
    /\ poshozgrads = Unset /\ posvertgrads = Unset
    /\ equaldims = Unset /\ courant_prefactor = Unset /\ _neighbors = Unset
    /\ _water_balance = Unset
    /\ actives_BCs = Unset /\ actives_BCs_water_depth = Unset
    /\ fixed_grad_nodes_active = Unset /\ fixed_grad_anchors_active = Unset
    /\ hnew = << >> /\ _internal_dt = 0 /\ assigned = {}
    /\ pc = "new"
    /\ dt = 0 /\ rainfall_intensity = [n \in Nodes |-> 0]
    /\ update_topography = FALSE /\ track_min_depth = FALSE
    /\ elapsed_time_in_dt = 0 /\ internal_dt = 0
    /\ ret = NoResult
    /\ calls = 0 /\ substeps = 0 /\ tracked_substeps = 0
    /\ h_entry = _h
    /\ upd_entry = FALSE /\ topo_invocations = 0
    /\ consecutive_updates = 0 /\ topo_after_first = << >>

(***************************************************************************)
(* __init__                                                                *)
(***************************************************************************)
\* np.where(self.grid.status_at_node != self._grid.BC_NODE_IS_CORE)[0]
ActiveNodes(status) ==
    SortedSeq({n \in Nodes : status[n] # BC_NODE_IS_CORE})

\* np.isclose(dt_max, 0.0): at the model's resolution only 0 is close to 0.0
IsCloseToZero(x) == x = 0

\* blank_nodes[ids] = True; np.where(blank_nodes[active])[0]
ActivePositionsOf(ids, act) ==
    Where([i \in 1..Len(act) |-> \E k \in 1..Len(ids) : ids[k] = act[i]])

\* self._neighbors: the adjacency table with BAD_INDEX normalised to -1
NormalisedNeighbors ==
    [n \in Nodes |->
        [k \in 1..4 |-> IF adjacent_nodes_at_node[n][k] = BAD_INDEX THEN -1
                        ELSE adjacent_nodes_at_node[n][k]]]

\* self._h[active][self.actives_BCs]
MaskedValues(vals, mask) ==
    LET w == Where(mask) IN [k \in 1..Len(w) |-> vals[w[k]]]

\* if not isinstance(grid, RasterModelGrid): ValueError(...)
\* the exception is built and dropped, there is no raise: the test never
\* stops the constructor
GridTestRaises(is_raster) == FALSE

\* any operation but a direct call of update_topographic_params ends a
\* row of such calls
NotAnUpdate == consecutive_updates' = 0 /\ topo_after_first' = << >>

\* the constructor raised: no component exists
ConstructFails(exception) ==
    /\ NotAnUpdate
    /\ pc' = "failed"
    /\ ret' = [op |-> "__init__", raised |-> exception, value |-> 0]
    /\ UNCHANGED <<gridVars, _h, topoVars, setupVars, fluxVars,
                   _water_balance, hnew, _internal_dt, assigned,
                   callVars, calls, substeps, tracked_substeps, h_entry,
                   upd_entry, topo_invocations>>

Construct ==
    /\ pc = "new"
    /\ \E dtm \in DtMaxChoices,
          has_interface \in RasterInterfaceChoices(grid_is_raster) :
        IF GridTestRaises(grid_is_raster)
        THEN ConstructFails("ValueError")
        ELSE IF IsCloseToZero(dtm)
        THEN ConstructFails("ValueError")
        ELSE IF ~has_interface
        THEN \* the grid lacks what lines 174-189 ask of it
             ConstructFails("AttributeError")
        ELSE LET active == ActiveNodes(status_at_node)
                 hoz_grads == [n \in Nodes |->
                     MapMeanOfActiveLinksToNode(topographic__elevation,
                         status_at_node, n, 1, 3, dx)]
                 vert_grads == [n \in Nodes |->
                     MapMeanOfActiveLinksToNode(topographic__elevation,
                         status_at_node, n, 2, 4, dy)]
             IN
             /\ _active' = active
             /\ dt_max' = dtm
             /\ hozslopept5' = [i \in 1..Len(active) |->
                                   SqrtAbs(hoz_grads[active[i]])]
             /\ vertslopept5' = [i \in 1..Len(active) |->
                                   SqrtAbs(vert_grads[active[i]])]
             /\ velx' = [n \in Nodes |-> 0]
             /\ vely' = [n \in Nodes |-> 0]
             /\ qy' = [n \in 0..number_of_nodes |-> 0]
             /\ qx' = [n \in 0..number_of_nodes |-> 0]
             /\ poshozgrads' = [n \in Nodes |-> hoz_grads[n] > 0]
             /\ posvertgrads' = [n \in Nodes |-> vert_grads[n] > 0]
             /\ equaldims' = (dx = dy)
             /\ courant_prefactor' = IF dx = dy THEN max_courant * dx
                                     ELSE max_courant * dx * dy
             /\ _neighbors' = NormalisedNeighbors
             /\ _water_balance' = << >>
             /\ actives_BCs' = [i \in 1..Len(active) |->
                    status_at_node[active[i]] = BC_NODE_IS_FIXED_VALUE]
             /\ actives_BCs_water_depth' =
                    MaskedValues(Take(_h, active), actives_BCs')
             /\ fixed_grad_nodes_active' =
                    ActivePositionsOf(FixedGradientNodes(status_at_node),
                                      active)
             /\ fixed_grad_anchors_active' =
                    ActivePositionsOf(
                        fixed_gradient_boundary_node_anchor_node, active)
             /\ pc' = "idle"
             /\ ret' = [op |-> "__init__", raised |-> "none", value |-> 0]
             /\ NotAnUpdate
             /\ UNCHANGED <<gridVars, _h, hnew, _internal_dt, assigned,
                            callVars, calls, substeps, tracked_substeps,
                            h_entry, upd_entry, topo_invocations>>

(***************************************************************************)
(* update_topographic_params                                               *)
(***************************************************************************)
\* Its first statement compares status_at_node with CLOSED_BOUNDARY, a name
\* the module neither defines nor imports: the call raises NameError before
\* it assigns anything.
UpdateTopographicParamsRaises == "NameError"

UpdateTopographicParams ==
    /\ pc = "idle"
    /\ consecutive_updates' = IF consecutive_updates = 0 THEN 1 ELSE 2
    /\ topo_after_first' = IF consecutive_updates = 0 THEN topoVars
                           ELSE topo_after_first
    /\ ret' = [op |-> "update_topographic_params",
               raised |-> UpdateTopographicParamsRaises, value |-> 0]
    /\ UNCHANGED <<gridVars, _h, topoVars, setupVars, fluxVars,
                   _water_balance, hnew, _internal_dt, assigned, pc,
                   callVars, calls, substeps, tracked_substeps, h_entry,
                   upd_entry, topo_invocations>>

(***************************************************************************)
(* calc_grads_and_timesteps                                                *)
(***************************************************************************)
\* hnew.clip(self.min_surface_water_depth, out=hnew)
ClipToFloor(hn) ==
    [i \in 1..Len(hn) |-> ClipMin(hn[i], min_surface_water_depth)]

\* (hnew - self._h[active]).sum() / self._h[active].sum(); a zero sum of
\* depths gives numpy's nan
BalanceSample(hn, field, act) ==
    LET before == Take(field, act)
        gain == SumSeq([i \in 1..Len(hn) |-> hn[i] - before[i]])
        total == SumSeq(before)
    IN  IF total = 0 THEN [nan |-> TRUE, value |-> 0]
        ELSE [nan |-> FALSE, value |-> (gain * Unit) \div total]

\* RecordBalance without the test of track_min_depth
RecordBalance_Always(trace, track, hn, field, act) ==
    Append(trace, BalanceSample(hn, field, act))

\* if track_min_depth: self._water_balance.append(...)
RecordBalance(trace, track, hn, field, act) ==
    IF track THEN Append(trace, BalanceSample(hn, field, act)) ELSE trace

\* self.vely[active] = twothirdshnewbyn * self.vertslopept5
\* self.vely[self.posvertgrads] *= -1.0        (and the same for velx)
Velocity(old, hn, slopept5, posgrads, act) ==
    [n \in Nodes |->
        LET v == IF IsIn(act, n)
                 THEN twothirdshnewbyn(hn[Pos(act, n)]) * slopept5[Pos(act, n)]
                 ELSE old[n]
        IN  IF posgrads[n] THEN -v ELSE v]

\* self.qy[active] = self.vely[active] * hnew  (the extra last entry stays 0)
Discharge(old, vel, hn, act) ==
    [k \in 0..number_of_nodes |->
        IF k < number_of_nodes /\ IsIn(act, k) THEN vel[k] * hn[Pos(act, k)]
        ELSE old[k]]

\* the Courant denominator: maxvelx + maxvely for equal spacings,
\* grid.dy * maxvelx + grid.dx * maxvely otherwise
CourantDenominator(maxvelx, maxvely) ==
    IF equaldims THEN maxvelx + maxvely ELSE dy * maxvelx + dx * maxvely

\* StableTimestep taking the larger of dt_max and the Courant step
StableTimestep_Max(maxvelx, maxvely) ==
    LET denominator == CourantDenominator(maxvelx, maxvely)
    IN  IF denominator = 0 THEN dt_max
        ELSE Max(dt_max, courant_prefactor \div denominator)

\* internal_dt = np.min((self.dt_max, courant_dt)); with no flow at all
\* courant_dt is a division by zero, numpy's inf, and dt_max is the minimum
StableTimestep(maxvelx, maxvely) ==
    LET denominator == CourantDenominator(maxvelx, maxvely)
    IN  IF denominator = 0 THEN dt_max
        ELSE Min(dt_max, courant_prefactor \div denominator)

(***************************************************************************)
(* run_one_step                                                            *)
(***************************************************************************)
\* q[self._neighbors[:, k]]: the index -1 reads the extra last entry
AtNeighbor(q, n, k) ==
    IF _neighbors[n][k] = -1 THEN q[number_of_nodes] ELSE q[_neighbors[n][k]]

\* qx_left = self.qx[self._neighbors[:, 2]].clip(min=0.0)
qx_left(q, n) == ClipMin(AtNeighbor(q, n, 3), 0)
\* qx_right = self.qx[self._neighbors[:, 0]].clip(max=0.0)
qx_right(q, n) == ClipMax(AtNeighbor(q, n, 1), 0)
\* qy_top = self.qy[self._neighbors[:, 1]].clip(min=0.0)
qy_top(q, n) == ClipMin(AtNeighbor(q, n, 2), 0)
\* qy_bottom = self.qy[self._neighbors[:, 3]].clip(max=0.0)
qy_bottom(q, n) == ClipMax(AtNeighbor(q, n, 4), 0)

\* ClipToRemaining that forgets the remaining time
ClipToRemaining_Unclipped(stable_dt, remaining_dt) == ClipMin(stable_dt, 0)

\* internal_dt = min(internal_dt, remaining_dt).clip(0.0)
ClipToRemaining(stable_dt, remaining_dt) ==
    ClipMin(Min(stable_dt, remaining_dt), 0)

\* internal_dt / spacing * discharge
Scaled(step, spacing, discharge) == (step * discharge) \div (spacing * Unit)

\* hnew += internal_dt * rainfall_intensity[active]
AddRain(hn, step, rain, act) ==
    [i \in 1..Len(hn) |-> hn[i] + step * rain[act[i]]]

\* hnew[self.actives_BCs] = self.actives_BCs_water_depth
SetBCs(hn, mask, depths) ==
    LET w == Where(mask)
    IN  [i \in 1..Len(hn) |->
            IF mask[i] THEN depths[CHOOSE k \in 1..Len(w) : w[k] = i]
            ELSE hn[i]]

\* hnew -= internal_dt / dx * fabs(qy[active])
\* hnew -= internal_dt / dy * fabs(qx[active])
\* hnew += internal_dt / dx * (qy_top - qy_bottom)[active]
\* hnew += internal_dt / dy * (qx_left - qx_right)[active]
\* Every discharge is rounded once, the same where it leaves a node and
\* where it arrives.
FluxItRound(hn, step, qxn, qyn, act) ==
    [i \in 1..Len(hn) |->
        LET n == act[i]
        IN  hn[i] - Scaled(step, dx, Abs(qyn[n]))
                  - Scaled(step, dy, Abs(qxn[n]))
                  + Scaled(step, dx, qy_top(qyn, n))
                  + Scaled(step, dx, -qy_bottom(qyn, n))
                  + Scaled(step, dy, qx_left(qxn, n))
                  + Scaled(step, dy, -qx_right(qxn, n))]

\* hnew[self.fixed_grad_nodes_active] = hnew[self.fixed_grad_anchors_active]
\* numpy assigns position by position when both index arrays have the same
\* length, broadcasts a single value, and raises ValueError otherwise
FixedGradientFits(targets, anchors) ==
    Len(anchors) = Len(targets) \/ Len(anchors) = 1
SetFixedGradient(hn, targets, anchors) ==
    [i \in 1..Len(hn) |->
        IF \E k \in 1..Len(targets) : targets[k] = i
        THEN LET k == CHOOSE j \in 1..Len(targets) : targets[j] = i
             IN  IF Len(anchors) = 1 THEN hn[anchors[1]]
                 ELSE hn[anchors[k]]
        ELSE hn[i]]

\* the locals of run_one_step exist while the call runs
NoCall ==
    /\ dt' = 0
    /\ rainfall_intensity' = [n \in Nodes |-> 0]
    /\ update_topography' = FALSE
    /\ track_min_depth' = FALSE
    /\ elapsed_time_in_dt' = 0
    /\ internal_dt' = 0

BeginRunOneStep ==
    /\ pc = "idle"
    /\ calls < MaxCalls
    /\ \E d \in DtChoices, r \in RainChoices, upd \in BOOLEAN,
          trk \in BOOLEAN :
        IF upd
        THEN \* update_topographic_params raises before the loop
             /\ upd_entry' = TRUE
             /\ topo_invocations' = 1
             /\ NoCall
             /\ pc' = "idle"
             /\ ret' = [op |-> "run_one_step",
                        raised |-> UpdateTopographicParamsRaises,
                        value |-> 0]
        ELSE /\ upd_entry' = FALSE
             /\ topo_invocations' = 0
             /\ dt' = d
             /\ rainfall_intensity' = r
             /\ update_topography' = upd
             /\ track_min_depth' = trk
             /\ elapsed_time_in_dt' = 0
             /\ internal_dt' = 0
             /\ pc' = "loop"
             /\ ret' = NoResult
    /\ hnew' = Take(_h, _active)
    /\ assigned' = assigned \cup {"hnew"}
    /\ calls' = calls + 1
    /\ NotAnUpdate
    /\ substeps' = 0
    /\ h_entry' = _h
    /\ UNCHANGED <<gridVars, _h, topoVars, setupVars, fluxVars,
                   _water_balance, _internal_dt, tracked_substeps>>

SubStep ==
    /\ pc = "loop"
    /\ elapsed_time_in_dt < dt
    /\ substeps < MaxSubSteps
    /\ substeps' = substeps + 1
    /\ NotAnUpdate
    /\ topo_invocations' = IF update_topography THEN topo_invocations + 1
                           ELSE topo_invocations
    /\ IF update_topography
       THEN \* calc_grads_and_timesteps calls update_topographic_params
            /\ NoCall
            /\ pc' = "idle"
            /\ ret' = [op |-> "run_one_step",
                       raised |-> UpdateTopographicParamsRaises,
                       value |-> 0]
            /\ UNCHANGED <<fluxVars, _water_balance, hnew, _internal_dt,
                           assigned, tracked_substeps>>
       ELSE LET clipped == ClipToFloor(hnew)
                vy == Velocity(vely, clipped, vertslopept5, posvertgrads,
                               _active)
                vx == Velocity(velx, clipped, hozslopept5, poshozgrads,
                               _active)
                qyn == Discharge(qy, vy, clipped, _active)
                qxn == Discharge(qx, vx, clipped, _active)
                stable == StableTimestep(MaxAbs(vx, number_of_nodes - 1),
                                         MaxAbs(vy, number_of_nodes - 1))
                step == ClipToRemaining(stable, dt - elapsed_time_in_dt)
                rained == AddRain(clipped, step, rainfall_intensity, _active)
                pinned == SetBCs(rained, actives_BCs, actives_BCs_water_depth)
                fluxed == FluxItRound(pinned, step, qxn, qyn, _active)
            IN  /\ _water_balance' = RecordBalance(_water_balance,
                                         track_min_depth, clipped, _h, _active)
                /\ tracked_substeps' = IF track_min_depth
                                       THEN tracked_substeps + 1
                                       ELSE tracked_substeps
                /\ vely' = vy /\ velx' = vx /\ qy' = qyn /\ qx' = qxn
                /\ _internal_dt' = stable
                /\ assigned' = assigned \cup {"_internal_dt"}
                /\ IF FixedGradientFits(fixed_grad_nodes_active,
                                        fixed_grad_anchors_active)
                   THEN /\ hnew' = SetFixedGradient(fluxed,
                                       fixed_grad_nodes_active,
                                       fixed_grad_anchors_active)
                        /\ internal_dt' = step
                        /\ elapsed_time_in_dt' = elapsed_time_in_dt + step
                        /\ pc' = "loop"
                        /\ ret' = NoResult
                        /\ UNCHANGED <<dt, rainfall_intensity,
                                       update_topography, track_min_depth>>
                   ELSE \* the assignment raises: the call ends here
                        /\ hnew' = fluxed
                        /\ NoCall
                        /\ pc' = "idle"
                        /\ ret' = [op |-> "run_one_step",
                                   raised |-> "ValueError", value |-> 0]
    /\ UNCHANGED <<gridVars, _h, topoVars, setupVars, calls, h_entry,
                   upd_entry>>

\* WriteBack that assigns the whole field and zeroes the other nodes
WriteBack_WholeField(field, hn, act) ==
    [n \in Nodes |-> IF IsIn(act, n) THEN hn[Pos(act, n)] ELSE 0]

\* after the loop: self._h[active] = hnew
WriteBack(field, hn, act) ==
    [n \in Nodes |-> IF IsIn(act, n) THEN hn[Pos(act, n)] ELSE field[n]]

\* surface_water__velocity and surface_water__discharge, the norms written
\* after the depths, are outputs that no operation of the component reads:
\* they are not part of the state here.
FinishRunOneStep ==
    /\ NotAnUpdate
    /\ pc = "loop"
    /\ ~(elapsed_time_in_dt < dt)
    /\ _h' = WriteBack(_h, hnew, _active)
    /\ NoCall
    /\ pc' = "idle"
    /\ ret' = [op |-> "run_one_step", raised |-> "none", value |-> 0]
    /\ UNCHANGED <<gridVars, topoVars, setupVars, fluxVars, _water_balance,
                   hnew, _internal_dt, assigned, calls, substeps,
                   tracked_substeps, h_entry, upd_entry, topo_invocations>>

(***************************************************************************)
(* The properties water_balance and internal_timestep                      *)
(***************************************************************************)
\* WaterBalanceIsEmpty comparing by identity (is []): never true
WaterBalanceIsEmpty_Identity(trace) == FALSE

\* if self._water_balance == []: raise ValueError(...)
WaterBalanceIsEmpty(trace) == trace = << >>

ReadWaterBalance ==
    /\ NotAnUpdate
    /\ pc = "idle"
    /\ ret' = IF WaterBalanceIsEmpty(_water_balance)
              THEN [op |-> "water_balance", raised |-> "ValueError",
                    value |-> 0]
              ELSE [op |-> "water_balance", raised |-> "none",
                    value |-> _water_balance]
    /\ UNCHANGED <<gridVars, _h, topoVars, setupVars, fluxVars,
                   _water_balance, hnew, _internal_dt, assigned, pc,
                   callVars, calls, substeps, tracked_substeps, h_entry,
                   upd_entry, topo_invocations>>

\* try: return self._internal_dt
\* except AttributeError: self.calc_grads_and_timesteps(False, False)
\* calc_grads_and_timesteps reads self.hnew, which only run_one_step assigns:
\* without it the AttributeError leaves the property
ReadInternalTimestep ==
    /\ NotAnUpdate
    /\ pc = "idle"
    /\ IF "_internal_dt" \in assigned
       THEN /\ ret' = [op |-> "internal_timestep", raised |-> "none",
                       value |-> _internal_dt]
            /\ UNCHANGED <<fluxVars, hnew, _internal_dt, assigned>>
       ELSE IF "hnew" \notin assigned
       THEN /\ ret' = [op |-> "internal_timestep",
                       raised |-> "AttributeError", value |-> 0]
            /\ UNCHANGED <<fluxVars, hnew, _internal_dt, assigned>>
       ELSE LET clipped == ClipToFloor(hnew)
                vy == Velocity(vely, clipped, vertslopept5, posvertgrads,
                               _active)
                vx == Velocity(velx, clipped, hozslopept5, poshozgrads,
                               _active)
                stable == StableTimestep(MaxAbs(vx, number_of_nodes - 1),
                                         MaxAbs(vy, number_of_nodes - 1))
            IN  /\ hnew' = clipped
                /\ vely' = vy /\ velx' = vx
                /\ qy' = Discharge(qy, vy, clipped, _active)
                /\ qx' = Discharge(qx, vx, clipped, _active)
                /\ _internal_dt' = stable
                /\ assigned' = assigned \cup {"_internal_dt"}
                /\ ret' = [op |-> "internal_timestep", raised |-> "none",
                           value |-> stable]
    /\ UNCHANGED <<gridVars, _h, topoVars, setupVars, _water_balance, pc,
                   callVars, calls, substeps, tracked_substeps, h_entry,
                   upd_entry, topo_invocations>>

Next ==
    \/ Construct
    \/ UpdateTopographicParams
    \/ BeginRunOneStep
    \/ SubStep
    \/ FinishRunOneStep
    \/ ReadWaterBalance
    \/ ReadInternalTimestep

Spec == Init /\ [][Next]_vars
(***************************************************************************)
(* Properties.                                                             *)
(***************************************************************************)
Built == pc \in {"idle", "loop"}
\* control is back at the loop test after a completed sub-step
EndOfSubStep == pc = "loop" /\ substeps > 0
\* the loop test has just failed: the loop exits
LoopExits == pc = "loop" /\ ~(elapsed_time_in_dt < dt)

\* C1: the depth at every active node is never below
\* min_surface_water_depth, before and after run_one_step
C1_DepthNeverBelowFloor ==
    Built => \A i \in 1..Len(_active) :
                 _h[_active[i]] >= min_surface_water_depth

\* C2: at the end of every sub-step every fixed-value active node holds the
\* depth recorded for it at construction
C2_FixedValueHeld ==
    EndOfSubStep =>
        MaskedValues(hnew, actives_BCs) = actives_BCs_water_depth

\* C3: at the end of every sub-step every fixed-gradient node has the
\* working depth of the anchor node the grid pairs with it
C3_FixedGradientEqualsAnchor ==
    EndOfSubStep =>
        LET fg == FixedGradientNodes(status_at_node)
            anchor == fixed_gradient_boundary_node_anchor_node
        IN  \A k \in 1..Len(fg) :
                IsIn(_active, anchor[k]) =>
                    hnew[Pos(_active, fg[k])] = hnew[Pos(_active, anchor[k])]

\* C4: the accumulated sub-step time never exceeds dt and equals dt when
\* the loop exits
C4_SubStepsSumToDt ==
    /\ pc = "loop" => elapsed_time_in_dt <= dt
    /\ LoopExits => elapsed_time_in_dt = dt
C4_Witness ==
    /\ LoopExits
    /\ substeps >= 2
    /\ elapsed_time_in_dt = dt
    /\ internal_dt < _internal_dt

\* C5: the internal_dt used in every sub-step is strictly positive
C5_InternalDtPositive == EndOfSubStep => internal_dt > 0

\* C6: the sub-step length calc_grads_and_timesteps returns never exceeds
\* dt_max and never exceeds the Courant bound of the velocities it computed
C6_StableTimestepBounded ==
    (Built /\ "_internal_dt" \in assigned) =>
        LET maxvelx == MaxAbs(velx, number_of_nodes - 1)
            maxvely == MaxAbs(vely, number_of_nodes - 1)
        IN  /\ _internal_dt <= dt_max
            /\ IF dx = dy
               THEN _internal_dt * (maxvelx + maxvely) <= max_courant * dx
               ELSE _internal_dt * (dy * maxvelx + dx * maxvely)
                        <= max_courant * dx * dy
C6_Witness ==
    /\ Built /\ "_internal_dt" \in assigned
    /\ dx # dy
    /\ MaxAbs(velx, number_of_nodes - 1) > 0
    /\ MaxAbs(vely, number_of_nodes - 1) > 0
    /\ 0 < _internal_dt /\ _internal_dt < dt_max

\* C7: with no fixed-value and no fixed-gradient nodes a sub-step changes
\* the total working depth, taken after the floor clamp, by exactly
\* internal_dt times the total rainfall rate over the active nodes
NoFixedNodes ==
    \A n \in Nodes : status_at_node[n] \notin
        {BC_NODE_IS_FIXED_VALUE, BC_NODE_IS_FIXED_GRADIENT}
C7_FluxConservesMass ==
    [][(pc = "loop" /\ pc' = "loop" /\ substeps' = substeps + 1
            /\ NoFixedNodes)
        => SumSeq(hnew') = SumSeq(ClipToFloor(hnew))
               + internal_dt' * SumSeq(Take(rainfall_intensity, _active))]_vars

\* C8: every sub-step of a tracked call appends exactly one sample to the
\* water-balance trace and sub-steps of other calls append none; during a
\* tracked first call the trace is as long as the sub-steps taken
C8_TraceCountsTrackedSubSteps ==
    Built =>
        /\ Len(_water_balance) = tracked_substeps
        /\ (calls = 1 /\ pc = "loop" /\ track_min_depth)
               => Len(_water_balance) = substeps
C8_Witness ==
    /\ calls = 2
    /\ LoopExits
    /\ ~track_min_depth
    /\ substeps >= 2
    /\ Len(_water_balance) >= 2

\* C9: reading water_balance raises exactly when no tracked sub-step has
\* run, returns the trace otherwise, and a failing read changes nothing
C9_WaterBalanceRead ==
    /\ [](ret.op = "water_balance" =>
            /\ (ret.raised = "ValueError") <=> (tracked_substeps = 0)
            /\ ret.raised = "none" => ret.value = _water_balance)
    /\ [][(ret'.op = "water_balance" /\ ret'.raised = "ValueError")
            => UNCHANGED <<gridVars, _h, topoVars, setupVars, fluxVars,
                           _water_balance, hnew, _internal_dt, assigned>>]_vars
C9_Witness ==
    /\ ret.op = "water_balance"
    /\ ret.raised = "ValueError"
    /\ calls > 0

\* C10: reading internal_timestep before run_one_step has ever been called
\* succeeds
C10_InternalTimestepBeforeAnyRun ==
    (ret.op = "internal_timestep" /\ calls = 0) => ret.raised = "none"

\* C11: constructing with a grid that is not a RasterModelGrid raises the
\* configuration error (ValueError) and produces no component
C11_NonRasterGridRejected ==
    ~grid_is_raster =>
        /\ ~Built
        /\ ret.op = "__init__" => ret.raised = "ValueError"

\* C12: a run_one_step call with update_topography=True runs
\* update_topographic_params exactly once, before its first sub-step, and goes
\* on to its sub-steps without running it again; a call with
\* update_topography=False never runs it
C12_TopographyUpdatedOncePerCall ==
    /\ (pc = "loop" /\ update_topography) => topo_invocations = 1
    /\ (pc = "loop" /\ ~update_topography) => topo_invocations = 0
    /\ (ret.op = "run_one_step" /\ ~upd_entry) => topo_invocations = 0
    /\ (ret.op = "run_one_step" /\ upd_entry) =>
           /\ topo_invocations = 1
           /\ ret.raised # UpdateTopographicParamsRaises

\* C13: update_topographic_params called twice in a row on an unchanged grid
\* completes both times, and the caches after the second call are the caches
\* after the first
C13_UpdateIsIdempotent ==
    ret.op = "update_topographic_params" =>
        /\ consecutive_updates \in {1, 2}
        /\ ret.raised = "none"
        /\ consecutive_updates = 2 => topoVars = topo_after_first

\* C14: in a sub-step the inflow of a node along x is the non-negative part
\* of its left neighbour's discharge plus the magnitude of the non-positive
\* part of its right neighbour's, and along y the non-negative part of its
\* bottom neighbour's plus the magnitude of the non-positive part of its top
\* neighbour's; a missing neighbour gives zero
NeighbourDischarge(q, n, k) ==
    IF adjacent_nodes_at_node[n][k] = BAD_INDEX THEN 0
    ELSE q[adjacent_nodes_at_node[n][k]]
C14_InflowFromUpstreamNeighbours ==
    EndOfSubStep =>
        \A i \in 1..Len(_active) :
            LET n == _active[i]
            IN  /\ qx_left(qx, n) - qx_right(qx, n)
                       = ClipMin(NeighbourDischarge(qx, n, 3), 0)
                           + Abs(ClipMax(NeighbourDischarge(qx, n, 1), 0))
                /\ qy_top(qy, n) - qy_bottom(qy, n)
                       = ClipMin(NeighbourDischarge(qy, n, 4), 0)
                           + Abs(ClipMax(NeighbourDischarge(qy, n, 2), 0))

\* C15: update_topographic_params completes; when the active set it
\* recomputes differs from the cached one it zeroes velx, vely, qx and qy and
\* rebuilds the neighbour table and the active set, and otherwise it leaves
\* all of these as they were
RecomputedActiveNodes(status) ==
    SortedSeq({n \in Nodes : status[n] # BC_NODE_IS_CLOSED})
C15_ResetIffActiveSetChanges ==
    [][ret'.op = "update_topographic_params" =>
          /\ ret'.raised = "none"
          /\ IF RecomputedActiveNodes(status_at_node) # _active
             THEN /\ velx' = [n \in Nodes |-> 0]
                  /\ vely' = [n \in Nodes |-> 0]
                  /\ qx' = [n \in 0..number_of_nodes |-> 0]
                  /\ qy' = [n \in 0..number_of_nodes |-> 0]
                  /\ _neighbors' = NormalisedNeighbors
                  /\ _active' = RecomputedActiveNodes(status_at_node)
             ELSE UNCHANGED <<fluxVars, _neighbors, _active>>]_vars

\* C16: the sub-steps of run_one_step leave surface_water__depth alone; the
\* field changes only in the step that leaves the loop, which stores the
\* working depths at the active nodes and nothing anywhere else, so that
\* after a call every inactive node has the depth it had on entry
C16_DepthFieldWrittenAfterLoopOnly ==
    /\ [](ret.op = "run_one_step" =>
            \A n \in Nodes : ~IsIn(_active, n) => _h[n] = h_entry[n])
    /\ [][/\ (pc = "loop" /\ pc' = "loop") => _h' = _h
          /\ _h' # _h => /\ LoopExits
                         /\ pc' = "idle"
                         /\ ret'.op = "run_one_step"
                         /\ ret'.raised = "none"
          /\ (pc = "loop" /\ pc' = "idle" /\ ret'.raised = "none") =>
                /\ \A i \in 1..Len(_active) : _h'[_active[i]] = hnew[i]
                /\ \A n \in Nodes : ~IsIn(_active, n) => _h'[n] = _h[n]]_vars
C16_Witness ==
    /\ ret.op = "run_one_step" /\ ret.raised = "none"
    /\ substeps >= 2
    /\ \E i \in 1..Len(_active) : _h[_active[i]] # h_entry[_active[i]]
    /\ \E n \in Nodes : ~IsIn(_active, n) /\ _h[n] > min_surface_water_depth

\* C17: the depth update of a sub-step scales the x-axis terms (the node's
\* own qx and qx_left, qx_right) by internal_dt / dx and the y-axis terms
\* (the node's own qy and qy_top, qy_bottom) by internal_dt / dy
FluxScaledByOwnAxis(hn, step, qxn, qyn, act) ==
    [i \in 1..Len(hn) |->
        LET n == act[i]
        IN  hn[i] - Scaled(step, dx, Abs(qxn[n]))
                  - Scaled(step, dy, Abs(qyn[n]))
                  + Scaled(step, dx, qx_left(qxn, n))
                  + Scaled(step, dx, -qx_right(qxn, n))
                  + Scaled(step, dy, qy_top(qyn, n))
                  + Scaled(step, dy, -qy_bottom(qyn, n))]
C17_DischargeScaledByOwnAxis ==
    [][(pc = "loop" /\ pc' = "loop" /\ substeps' = substeps + 1) =>
          hnew' = SetFixedGradient(
                      FluxScaledByOwnAxis(
                          SetBCs(AddRain(ClipToFloor(hnew), internal_dt',
                                         rainfall_intensity, _active),
                                 actives_BCs, actives_BCs_water_depth),
                          internal_dt', qx', qy', _active),
                      fixed_grad_nodes_active, fixed_grad_anchors_active)]_vars

\* C18: at every sub-step of every call, calls with update_topography=True
\* included (they run their sub-steps rather than end in
\* update_topographic_params), the working depths, the sqrt-slope arrays and
\* the fixed-value mask have one entry per active node, the fixed-value
\* depths one per fixed-value node, and the fixed-gradient index arrays point
\* into the active set
ArraysShareActiveSet ==
    /\ Len(hnew) = Len(_active)
    /\ Len(hozslopept5) = Len(_active)
    /\ Len(vertslopept5) = Len(_active)
    /\ Len(actives_BCs) = Len(_active)
    /\ Len(actives_BCs_water_depth) = Len(Where(actives_BCs))
    /\ \A k \in 1..Len(fixed_grad_nodes_active) :
           fixed_grad_nodes_active[k] \in 1..Len(_active)
    /\ \A k \in 1..Len(fixed_grad_anchors_active) :
           fixed_grad_anchors_active[k] \in 1..Len(_active)
C18_ArraysIndexedByOneActiveSet ==
    /\ pc = "loop" => ArraysShareActiveSet
    /\ (ret.op = "run_one_step" /\ upd_entry) =>
           ret.raised # UpdateTopographicParamsRaises
====
